---- MODULE Spec2Model ----
(***************************************************************************)
(* The Divide-and-Concur solver of src/src/solvers/divide_and_concur.rs:   *)
(* DivideAndConcurSolver::new / run and the free functions step and        *)
(* solution, one action per projector call or distance call.               *)
(*                                                                         *)
(* f32 values are held in fixed point: the integer n stands for the f32    *)
(* n/2, so every multiple of 0.5 in range is exact, as it is in f32.  NaN  *)
(* is a separate value.  A State is a pair of such components with the     *)
(* component-wise Add and Mul<f32> of the crate's doc example.             *)
(***************************************************************************)
EXTENDS Integers, Sequences, FiniteSets, TLC

\* ------------------------------------------------------------------ bounds
\* n_steps is drawn from 0 .. MaxSteps; a faulty closure fails on one of its
\* first MaxFault calls; one behaviour makes MaxRuns invocations of run.
MaxSteps == 2
MaxFault == 3
MaxRuns == 2

\* --------------------------------------------------------------- f32 values
\* The f32 holding the integer n.
F32(n) == n * 2

\* f32 division a / b, exact on the values the model draws.
FDiv(a, b) == CHOOSE q \in {(a * 2) \div b} : q * b = a * 2

\* f32 product a * b, exact on the values the model reaches.
FMul(a, b) == CHOOSE p \in {(a * b) \div 2} : p * 2 = a * b

\* A distance: a number or NaN.  NaN compares false with everything.
NaN == [nan |-> TRUE, val |-> 0]
Num(v) == [nan |-> FALSE, val |-> v]
Lt(a, b) == ~a.nan /\ ~b.nan /\ a.val < b.val

\* ------------------------------------------------------------------- State
None == <<>>

\* impl Add for MyState
Add(a, b) == <<a[1] + b[1], a[2] + b[2]>>

\* impl Mul<f32> for MyState
Mul(s, k) == <<FMul(s[1], k), FMul(s[2], k)>>

Abs(n) == IF n < 0 THEN -n ELSE n

\* -------------------------------------------------- caller-supplied closures
\* A projector is [kind, failAt]: a closure D: Fn(S) -> Result<S>.  kind is its
\* mapping; failAt > 0 makes its failAt-th call (counted by the closure over
\* its lifetime) return an error whatever the input.
Kinds == {"identity", "diagonal", "signum", "clamp"}

Ok(v) == [ok |-> TRUE, val |-> v]
Err(e) == [ok |-> FALSE, err |-> e]

Projection(who, cause, arg) ==
  [kind |-> "Projection", by |-> who, cause |-> cause, arg |-> arg]

Convergence(n, d) == [kind |-> "Convergence", steps |-> n, delta |-> d]

\* f32::signum; the zeros the model reaches are +0.0.
Sign(v) == IF v >= 0 THEN F32(1) ELSE F32(-1)

\* The nearest point of [-1.0, 1.0].
Clamp(v) == IF v > F32(1) THEN F32(1) ELSE IF v < F32(-1) THEN F32(-1) ELSE v

\* The value a projector of this kind maps x to, when it does not fail.
ProjValue(kind, x) ==
  CASE kind = "identity" -> x
    [] kind = "diagonal" -> <<x[1], x[1]>>
    [] kind = "signum" -> <<Sign(x[1]), Sign(x[2])>>
    [] kind = "clamp" -> <<Clamp(x[1]), Clamp(x[2])>>

\* signum cannot decide a zero component and reports it.
ProjRefuses(kind, x) == kind = "signum" /\ (x[1] = 0 \/ x[2] = 0)

\* The n-th call of projector p (named who) on x.
Project(p, who, x, n) ==
  IF p.failAt = n THEN Err(Projection(who, "fault", x))
  ELSE IF ProjRefuses(p.kind, x) THEN Err(Projection(who, "zero", x))
  ELSE Ok(ProjValue(p.kind, x))

Norms == {"zero", "l1", "signs", "nan"}

\* N: Fn(&S, &S) -> f32
Distance(kind, a, b) ==
  CASE kind = "zero" -> Num(F32(0))
    [] kind = "l1" -> Num(Abs(a[1] - b[1]) + Abs(a[2] - b[2]))
    [] kind = "signs" ->
         Num(F32((IF Sign(a[1]) # Sign(b[1]) THEN 1 ELSE 0)
               + (IF Sign(a[2]) # Sign(b[2]) THEN 1 ELSE 0)))
    [] kind = "nan" -> NaN

\* -------------------------------------------------------------- step pieces
\* let gamma_a = -1f32 / beta;
GammaA(b) == FDiv(F32(-1), b)

\* let gamma_b = 1f32 / beta;
GammaB(b) == FDiv(F32(1), b)

\* Mutant: the sign of the second term is lost.
Relax_NoNeg(projected, x, gamma) ==
  Add(Mul(projected, F32(1) + gamma), Mul(x, gamma))

\* projected * (1.0 + gamma) + state * -gamma
Relax(projected, x, gamma) ==
  Add(Mul(projected, F32(1) + gamma), Mul(x, -gamma))

\* Mutant: the two projections are added.
Combine_Sum(x, p_afb, p_bfa, b) == Add(x, Mul(Add(p_afb, p_bfa), b))

\* let inner = pafb + pbfa * -1f32; let result = state + inner * beta;
Combine(x, p_afb, p_bfa, b) ==
  Add(x, Mul(Add(p_afb, Mul(p_bfa, F32(-1))), b))

\* --------------------------------------------------------------- run pieces
\* Mutant: the test is delta <= epsilon.
Converged_OrEqual(d, eps) == ~d.nan /\ ~eps.nan /\ d.val <= eps.val

\* if delta < self.epsilon
Converged(d, eps) == Lt(d, eps)

\* Mutant: solution is given the update just computed.
Extracted_Update(current, candidate) == candidate

\* The state run hands to solution: solution(state, ...), not update.
Extracted(current, candidate) == current

\* Mutant: the converging iteration is counted as a step taken.
Success_CountsIteration(s, steps, d) == Ok(<<s, steps + 1, d>>)

\* return Ok((state, t, delta));
Success(s, steps, d) == Ok(<<s, steps, d>>)

\* Err(Error::Convergence(self.n_steps, delta))
Exhausted(n, d) == Err(Convergence(n, d))

\* Mutant: the projector's error is wrapped again on the way out.
Propagate_Wrapped(r) == Err([kind |-> "Unknown", cause |-> r.err])

\* The ? operator on a projector's Err: the function returns it as it is.
Propagate(r) == r

\* Mutant: the loop counts from 1, one step fewer than the budget.
InRange_FromOne(i, n) == i + 1 < n

\* Mutant: the loop runs for t in 0..=self.n_steps.
InRange_Inclusive(i, n) == i <= n

\* for t in 0..self.n_steps
InRange(i, n) == i < n

\* state = update;
Accepted(current, candidate) == candidate

\* ------------------------------------------------------------------- state
VARIABLES
  divide, concur, norm, beta, epsilon, n_steps,  \* the solver's fields
  used,            \* calls each projector closure has served in its lifetime
  pc,              \* the next call to make, or "idle" / "returned"
  caller,          \* the public function the caller invoked
  initial_state,   \* the argument of the invocation
  state, delta, t, update,   \* run's locals (state: also step's and solution's parameter)
  fa, fb, pafb,    \* step's and solution's locals
  result,          \* what the invocation returned
  calls,           \* the closure calls this invocation has made, in order
  prev,            \* the earlier invocation: its function, argument and result
  runs             \* invocations started so far

solver == <<divide, concur, norm, beta, epsilon, n_steps>>
locals == <<state, delta, t, update, fa, fb, pafb>>
vars == <<divide, concur, norm, beta, epsilon, n_steps, used, pc, caller,
          initial_state, state, delta, t, update, fa, fb, pafb, result, calls,
          prev, runs>>

\* Inputs.
Betas == {F32(1), F32(-1), F32(2)}
Epsilons == {Num(F32(0)), Num(F32(2))}
InitialStates == {<<F32(0), F32(2)>>, <<F32(2), F32(-1)>>}
Faults == 0 .. MaxFault
Projectors == [kind : Kinds, failAt : Faults]

NoResult == [ok |-> FALSE, err |-> [kind |-> "none"]]
NoPrev == [fn |-> "none", arg |-> None, result |-> NoResult, calls |-> <<>>]

\* One entry of calls: the closure, its argument (for norm: update, and ref the
\* current state) and what it returned.
Call(f, arg, ref, r) == [fn |-> f, arg |-> arg, ref |-> ref, out |-> r]

\* DivideAndConcurSolver::new: the fields are the arguments.
Init ==
  /\ divide \in Projectors
  /\ concur \in Projectors
  /\ divide.failAt = 0 \/ concur.failAt = 0
  /\ norm \in Norms
  /\ beta \in Betas
  /\ epsilon \in Epsilons
  /\ n_steps \in 0 .. MaxSteps
  /\ used = [divide |-> 0, concur |-> 0]
  /\ pc = "idle"
  /\ caller = "none"
  /\ initial_state = None
  /\ state = None
  /\ delta = NaN
  /\ t = 0
  /\ update = None
  /\ fa = None
  /\ fb = None
  /\ pafb = None
  /\ result = NoResult
  /\ calls = <<>>
  /\ prev = NoPrev
  /\ runs = 0

Idle == pc \in {"idle", "returned"}

\* What every invocation does on entry: remember the earlier one.
Enter(f, x) ==
  /\ Idle
  /\ runs < MaxRuns
  /\ runs' = runs + 1
  /\ caller' = f
  /\ initial_state' = x
  /\ prev' = IF runs = 0 THEN NoPrev
             ELSE [fn |-> caller, arg |-> initial_state, result |-> result,
                   calls |-> calls]
  /\ calls' = <<>>
  /\ fa' = None /\ fb' = None /\ pafb' = None /\ update' = None
  /\ UNCHANGED <<solver, used>>

\* Mutant: a later run starts from the state the earlier one left.
Run_WarmStart(x) ==
  /\ Enter("run", x)
  /\ state' = (IF runs = 0 THEN x ELSE state)
  /\ delta' = NaN
  /\ t' = 0
  /\ IF InRange(0, n_steps)
       THEN pc' = "step_fa" /\ result' = NoResult
       ELSE pc' = "returned" /\ result' = Exhausted(n_steps, NaN)

\* Mutant: the step counter and the distance are kept from run to run.
Run_KeepsCounter(x) ==
  /\ Enter("run", x)
  /\ state' = x
  /\ delta' = delta
  /\ t' = t
  /\ IF InRange(t, n_steps)
       THEN pc' = "step_fa" /\ result' = NoResult
       ELSE pc' = "returned" /\ result' = Exhausted(n_steps, delta)

\* Mutant: delta starts at 0 instead of NaN.
Run_DeltaZero(x) ==
  /\ Enter("run", x)
  /\ state' = x
  /\ delta' = Num(F32(0))
  /\ t' = 0
  /\ IF InRange(0, n_steps)
       THEN pc' = "step_fa" /\ result' = NoResult
       ELSE pc' = "returned" /\ result' = Exhausted(n_steps, Num(F32(0)))

\* fn run, up to the first step: let mut state = initial_state; let mut delta
\* = f32::NAN; and the loop head for t = 0.
Run(x) ==
  /\ Enter("run", x)
  /\ state' = x
  /\ delta' = NaN
  /\ t' = 0
  /\ IF InRange(0, n_steps)
       THEN pc' = "step_fa" /\ result' = NoResult
       ELSE pc' = "returned" /\ result' = Exhausted(n_steps, NaN)

\* step, line 80: concur(state.clone())? and fa.
StepFa ==
  /\ pc = "step_fa"
  /\ LET n == used.concur + 1
         r == Project(concur, "concur", state, n)
     IN /\ used' = [used EXCEPT !.concur = n]
        /\ calls' = Append(calls, Call("concur", state, None, r))
        /\ IF r.ok
             THEN /\ fa' = Relax(r.val, state, GammaA(beta))
                  /\ pc' = "step_fb"
                  /\ UNCHANGED result
             ELSE /\ result' = Propagate(r)
                  /\ pc' = "returned"
                  /\ UNCHANGED fa
  /\ UNCHANGED <<solver, caller, initial_state, state, delta, t, update, fb,
                 pafb, prev, runs>>

\* Mutant: a failed divide(state) is replaced by the state itself.
StepFb_Swallow ==
  /\ pc = "step_fb"
  /\ LET n == used.divide + 1
         r == Project(divide, "divide", state, n)
     IN /\ used' = [used EXCEPT !.divide = n]
        /\ calls' = Append(calls, Call("divide", state, None, r))
        /\ fb' = Relax(IF r.ok THEN r.val ELSE state, state, GammaB(beta))
        /\ pc' = "step_pafb"
        /\ UNCHANGED result
  /\ UNCHANGED <<solver, caller, initial_state, state, delta, t, update, fa,
                 pafb, prev, runs>>

\* step, line 81: divide(state.clone())? and fb.
StepFb ==
  /\ pc = "step_fb"
  /\ LET n == used.divide + 1
         r == Project(divide, "divide", state, n)
     IN /\ used' = [used EXCEPT !.divide = n]
        /\ calls' = Append(calls, Call("divide", state, None, r))
        /\ IF r.ok
             THEN /\ fb' = Relax(r.val, state, GammaB(beta))
                  /\ pc' = "step_pafb"
                  /\ UNCHANGED result
             ELSE /\ result' = Propagate(r)
                  /\ pc' = "returned"
                  /\ UNCHANGED fb
  /\ UNCHANGED <<solver, caller, initial_state, state, delta, t, update, fa,
                 pafb, prev, runs>>

\* Mutant: concur is given fa.
StepPafb_OnFa ==
  /\ pc = "step_pafb"
  /\ LET n == used.concur + 1
         r == Project(concur, "concur", fa, n)
     IN /\ used' = [used EXCEPT !.concur = n]
        /\ calls' = Append(calls, Call("concur", fa, None, r))
        /\ IF r.ok
             THEN /\ pafb' = r.val
                  /\ pc' = "step_pbfa"
                  /\ UNCHANGED result
             ELSE /\ result' = Propagate(r)
                  /\ pc' = "returned"
                  /\ UNCHANGED pafb
  /\ UNCHANGED <<solver, caller, initial_state, state, delta, t, update, fa,
                 fb, prev, runs>>

\* step, line 85: let pafb = concur(fb)?;
StepPafb ==
  /\ pc = "step_pafb"
  /\ LET n == used.concur + 1
         r == Project(concur, "concur", fb, n)
     IN /\ used' = [used EXCEPT !.concur = n]
        /\ calls' = Append(calls, Call("concur", fb, None, r))
        /\ IF r.ok
             THEN /\ pafb' = r.val
                  /\ pc' = "step_pbfa"
                  /\ UNCHANGED result
             ELSE /\ result' = Propagate(r)
                  /\ pc' = "returned"
                  /\ UNCHANGED pafb
  /\ UNCHANGED <<solver, caller, initial_state, state, delta, t, update, fa,
                 fb, prev, runs>>

\* step, lines 86-96: let pbfa = divide(fa)?; inner; result; Ok(result).  The
\* value goes to run's update, or to the caller of step.
StepPbfa ==
  /\ pc = "step_pbfa"
  /\ LET n == used.divide + 1
         r == Project(divide, "divide", fa, n)
     IN /\ used' = [used EXCEPT !.divide = n]
        /\ calls' = Append(calls, Call("divide", fa, None, r))
        /\ IF r.ok
             THEN LET out == Combine(state, pafb, r.val, beta)
                  IN IF caller = "run"
                       THEN /\ update' = out
                            /\ pc' = "norm"
                            /\ UNCHANGED result
                       ELSE /\ result' = Ok(out)
                            /\ pc' = "returned"
                            /\ UNCHANGED update
             ELSE /\ result' = Propagate(r)
                  /\ pc' = "returned"
                  /\ UNCHANGED update
  /\ UNCHANGED <<solver, caller, initial_state, state, delta, t, fa, fb, pafb,
                 prev, runs>>

\* run, lines 52-65: the distance, the convergence test, and either the hand
\* over to solution or the acceptance of update and the next loop head.
Norm ==
  /\ pc = "norm"
  /\ LET d == Distance(norm, update, state)
     IN /\ delta' = d
        /\ calls' = Append(calls, Call("norm", update, state, Ok(d)))
        /\ IF Converged(d, epsilon)
             THEN /\ state' = Extracted(state, update)
                  /\ pc' = "solution_fa"
                  /\ UNCHANGED <<t, result>>
             ELSE /\ state' = Accepted(state, update)
                  /\ t' = t + 1
                  /\ IF InRange(t + 1, n_steps)
                       THEN pc' = "step_fa" /\ UNCHANGED result
                       ELSE pc' = "returned" /\ result' = Exhausted(n_steps, d)
  /\ UNCHANGED <<solver, used, caller, initial_state, update, fa, fb, pafb,
                 prev, runs>>

\* Mutant: solution relaxes with gamma_b.
SolutionFa_GammaB ==
  /\ pc = "solution_fa"
  /\ LET n == used.concur + 1
         r == Project(concur, "concur", state, n)
     IN /\ used' = [used EXCEPT !.concur = n]
        /\ calls' = Append(calls, Call("concur", state, None, r))
        /\ IF r.ok
             THEN /\ fa' = Relax(r.val, state, GammaB(beta))
                  /\ pc' = "solution_divide"
                  /\ UNCHANGED result
             ELSE /\ result' = Propagate(r)
                  /\ pc' = "returned"
                  /\ UNCHANGED fa
  /\ UNCHANGED <<solver, caller, initial_state, state, delta, t, update, fb,
                 pafb, prev, runs>>

\* solution, line 106: concur(state.clone())? and fa.
SolutionFa ==
  /\ pc = "solution_fa"
  /\ LET n == used.concur + 1
         r == Project(concur, "concur", state, n)
     IN /\ used' = [used EXCEPT !.concur = n]
        /\ calls' = Append(calls, Call("concur", state, None, r))
        /\ IF r.ok
             THEN /\ fa' = Relax(r.val, state, GammaA(beta))
                  /\ pc' = "solution_divide"
                  /\ UNCHANGED result
             ELSE /\ result' = Propagate(r)
                  /\ pc' = "returned"
                  /\ UNCHANGED fa
  /\ UNCHANGED <<solver, caller, initial_state, state, delta, t, update, fb,
                 pafb, prev, runs>>

\* Mutant: the return after solution is missing and the loop goes on from
\* the solution.
SolutionDivide_NoReturn ==
  /\ pc = "solution_divide"
  /\ LET n == used.divide + 1
         r == Project(divide, "divide", fa, n)
     IN /\ used' = [used EXCEPT !.divide = n]
        /\ calls' = Append(calls, Call("divide", fa, None, r))
        /\ IF r.ok /\ caller = "run"
             THEN /\ state' = r.val
                  /\ t' = t + 1
                  /\ IF InRange(t + 1, n_steps)
                       THEN pc' = "step_fa" /\ UNCHANGED result
                       ELSE /\ pc' = "returned"
                            /\ result' = Exhausted(n_steps, delta)
             ELSE /\ result' = IF r.ok THEN r ELSE Propagate(r)
                  /\ pc' = "returned"
                  /\ UNCHANGED <<state, t>>
  /\ UNCHANGED <<solver, caller, initial_state, delta, update, fa, fb,
                 pafb, prev, runs>>

\* solution, line 107: divide(fa), returned as it is; in run, lines 58-59:
\* state = solution(..)?; return Ok((state, t, delta)).
SolutionDivide ==
  /\ pc = "solution_divide"
  /\ LET n == used.divide + 1
         r == Project(divide, "divide", fa, n)
     IN /\ used' = [used EXCEPT !.divide = n]
        /\ calls' = Append(calls, Call("divide", fa, None, r))
        /\ pc' = "returned"
        /\ IF r.ok /\ caller = "run"
             THEN /\ state' = r.val
                  /\ result' = Success(r.val, t, delta)
             ELSE /\ result' = IF r.ok THEN r ELSE Propagate(r)
                  /\ UNCHANGED state
  /\ UNCHANGED <<solver, caller, initial_state, delta, t, update, fa, fb,
                 pafb, prev, runs>>

\* pub fn step, called by itself with freshly made closures: its parameters
\* are state, divide, concur, beta.
CallStep(x) ==
  /\ pc = "idle"
  /\ Enter("step", x)
  /\ state' = x
  /\ pc' = "step_fa"
  /\ result' = NoResult
  /\ UNCHANGED <<delta, t>>

\* pub fn solution, called by itself.
CallSolution(x) ==
  /\ pc = "idle"
  /\ Enter("solution", x)
  /\ state' = x
  /\ pc' = "solution_fa"
  /\ result' = NoResult
  /\ UNCHANGED <<delta, t>>

Next ==
  \/ \E x \in InitialStates : Run(x)
  \/ StepFa
  \/ StepFb
  \/ StepPafb
  \/ StepPbfa
  \/ Norm
  \/ SolutionFa
  \/ SolutionDivide

Spec == Init /\ [][Next]_vars

\* The free functions step and solution on their own: no solver is built, and
\* divide, concur and beta are the arguments the caller passes each time.
Grid == {F32(-2), F32(-1), F32(0), F32(1), F32(2)}
FnStates == Grid \X Grid

InitFn ==
  /\ Init
  /\ norm = "zero"
  /\ epsilon = Num(F32(0))
  /\ n_steps = 0

NextFn ==
  \/ \E x \in FnStates : CallStep(x)
  \/ \E x \in FnStates : CallSolution(x)
  \/ StepFa
  \/ StepFb
  \/ StepPafb
  \/ StepPbfa
  \/ SolutionFa
  \/ SolutionDivide

SpecFn == InitFn /\ [][NextFn]_vars

\* ------------------------------------------------- step and solution, pure
\* A stateless projector of the given kind (it fails on its input alone).
Stateless(kind) == [kind |-> kind, failAt |-> 0]

\* pub fn solution, for stateless projectors.
solution(x, d, c, b) ==
  LET pa == Project(Stateless(c), "concur", x, 1)
  IN IF ~pa.ok THEN pa
     ELSE Project(Stateless(d), "divide", Relax(pa.val, x, GammaA(b)), 1)

\* pub fn step, for stateless projectors.
step(x, d, c, b) ==
  LET pa == Project(Stateless(c), "concur", x, 1)
      pb == Project(Stateless(d), "divide", x, 1)
      f_a == Relax(pa.val, x, GammaA(b))
      f_b == Relax(pb.val, x, GammaB(b))
      p_afb == Project(Stateless(c), "concur", f_b, 1)
      p_bfa == Project(Stateless(d), "divide", f_a, 1)
  IN IF ~pa.ok THEN pa
     ELSE IF ~pb.ok THEN pb
     ELSE IF ~p_afb.ok THEN p_afb
     ELSE IF ~p_bfa.ok THEN p_bfa
     ELSE Ok(Combine(x, p_afb.val, p_bfa.val, b))

\* ------------------------------------------------------ reading the call log
IsNorm(c) == c.fn = "norm"
IsProjector(c) == c.fn # "norm"
NormCalls == SelectSeq(calls, IsNorm)
ProjectorCalls == SelectSeq(calls, IsProjector)
AllCallsOk == \A i \in 1 .. Len(calls) : calls[i].out.ok
Below(c) == Lt(c.out.val, epsilon)
SomeNormBelow == \E i \in 1 .. Len(NormCalls) : Below(NormCalls[i])
RunReturned == pc = "returned" /\ caller = "run"

\* ------------------------------------------------------------------ claims
\* C1: a run in which no projector fails and whose first distance below
\* epsilon is measured in iteration t returns Ok((solution(current_t), t,
\* delta)): current_t is the initial state after t accepted updates, each
\* update being step(current); the update of iteration t is not what solution
\* is given.
C1_ConvergedResult ==
  (RunReturned /\ AllCallsOk /\ SomeNormBelow) =>
    LET nc == NormCalls
        k == Len(nc)
        last == nc[k]
    IN /\ \A i \in 1 .. k - 1 : ~Below(nc[i])
       /\ Below(last)
       /\ nc[1].ref = initial_state
       /\ \A i \in 2 .. k : nc[i].ref = nc[i - 1].arg
       /\ \A i \in 1 .. k :
            Ok(nc[i].arg) = step(nc[i].ref, divide.kind, concur.kind, beta)
       /\ result.ok
       /\ result.val =
            <<solution(last.ref, divide.kind, concur.kind, beta).val,
              k - 1, last.out.val>>
       /\ calls[Len(calls) - 1].arg = last.ref

\* C1 witness: a run converged after at least one accepted update, and the
\* discarded update would have given another solution.
C1_Witness ==
  /\ RunReturned
  /\ result.ok
  /\ result.val[2] >= 1
  /\ update # calls[Len(calls) - 1].arg
  /\ solution(update, divide.kind, concur.kind, beta) # Ok(result.val[1])

\* C2: a run in which no projector fails and no distance is below epsilon
\* returns Err(Convergence(n_steps, d)) after exactly n_steps steps (four
\* projector calls and one distance each) and n_steps accepted updates; d is
\* the distance of the last iteration (with n_steps = 0 there is none, and d
\* is the NaN the run starts with).
C2_ExhaustedResult ==
  (RunReturned /\ AllCallsOk /\ ~SomeNormBelow) =>
    LET nc == NormCalls
    IN /\ Len(nc) = n_steps
       /\ Len(ProjectorCalls) = 4 * n_steps
       /\ t = n_steps
       /\ \A i \in 1 .. n_steps :
            nc[i].ref = (IF i = 1 THEN initial_state ELSE nc[i - 1].arg)
       /\ state = (IF n_steps = 0 THEN initial_state ELSE nc[n_steps].arg)
       /\ result =
            Err(Convergence(n_steps,
                            IF n_steps = 0 THEN NaN ELSE nc[n_steps].out.val))

\* C2 witness: two steps were taken, each distance a number above epsilon.
C2_Witness ==
  /\ RunReturned
  /\ n_steps >= 2
  /\ ~result.ok
  /\ result.err.kind = "Convergence"
  /\ ~result.err.delta.nan
  /\ result.err.delta.val > epsilon.val
  /\ state # initial_state

\* C3 as stated: with the distance that is 0 for every pair and epsilon > 0,
\* every run returns Ok((solution(initial), 0, delta)).
C3_Original ==
  (RunReturned /\ norm = "zero" /\ epsilon.val > 0) =>
    /\ result.ok
    /\ result.val[1] = solution(initial_state, divide.kind, concur.kind, beta).val
    /\ result.val[2] = 0

\* C3, amended: with the distance that is 0 for every pair, epsilon > 0,
\* n_steps >= 1 and no failing projector call, the run returns
\* Ok((solution(initial), 0, 0)) after one step and one distance, and the
\* current state is the initial state until solution's result replaces it.
C3_ZeroDistance ==
  (caller = "run" /\ norm = "zero" /\ epsilon.val > 0 /\ n_steps >= 1
     /\ AllCallsOk) =>
    /\ t = 0
    /\ Len(NormCalls) <= 1
    /\ pc # "returned" => state = initial_state
    /\ pc = "returned" =>
         /\ result =
              Ok(<<solution(initial_state, divide.kind, concur.kind, beta).val,
                   0, Num(F32(0))>>)
         /\ state = result.val[1]
         /\ Len(calls) = 7
         /\ calls[5].fn = "norm" /\ calls[5].ref = initial_state
         /\ calls[6].arg = initial_state

\* C3 witness: such a run returned, and its update was not the initial state.
C3_Witness ==
  /\ RunReturned
  /\ norm = "zero"
  /\ epsilon.val > 0
  /\ result.ok
  /\ update # initial_state
  /\ result.val[1] # initial_state

\* C4: when the first call a run makes to a projector fails, the run has
\* returned exactly that error, made no call after it, and left the current
\* state, the step counter and delta as they started; no distance was taken
\* and solution was not entered.
C4_FirstCallError ==
  caller = "run" =>
    \A i \in 1 .. Len(calls) :
      (~calls[i].out.ok /\ \A j \in 1 .. i - 1 : calls[j].fn # calls[i].fn) =>
        /\ pc = "returned"
        /\ result = calls[i].out
        /\ i = Len(calls)
        /\ i <= 2
        /\ state = initial_state
        /\ t = 0
        /\ delta = NaN
        /\ update = None
        /\ Len(NormCalls) = 0

\* C4 witness: concur(state) succeeded and the first divide call failed.
C4_Witness ==
  /\ RunReturned
  /\ Len(calls) = 2
  /\ calls[2].fn = "divide"
  /\ ~calls[2].out.ok
  /\ result.err.kind = "Projection"

\* C5: a failed projector call is the last call of its invocation, which has
\* returned that call's error unchanged and no success triple.
C5_ErrorAborts ==
  \A i \in 1 .. Len(calls) :
    ~calls[i].out.ok =>
      /\ i = Len(calls)
      /\ pc = "returned"
      /\ result = calls[i].out
      /\ ~result.ok

\* C5 witness: convergence was detected and solution's divide call failed.
C5_Witness ==
  /\ RunReturned
  /\ Len(calls) >= 7
  /\ calls[Len(calls)].fn = "divide"
  /\ ~calls[Len(calls)].out.ok
  /\ calls[Len(calls) - 2].fn = "norm"
  /\ Below(calls[Len(calls) - 2])

\* C6: an iteration whose delta is not strictly below epsilon (equal, above
\* or NaN) does not converge: its update is the next current state and the
\* step counter advances, and the run goes on or returns an error, never a
\* success from that iteration; with the constant distance 0 = epsilon no run
\* succeeds.
C6_StrictLess ==
  caller = "run" =>
    LET nc == NormCalls
    IN /\ \A i \in 1 .. Len(nc) :
            (nc[i].out.val.nan \/ epsilon.nan
               \/ nc[i].out.val.val >= epsilon.val) =>
              /\ i < Len(nc) => nc[i + 1].ref = nc[i].arg
              /\ i = Len(nc) =>
                   /\ state = nc[i].arg
                   /\ t = i
                   /\ pc \notin {"solution_fa", "solution_divide"}
                   /\ pc = "returned" => ~result.ok
       /\ (norm = "zero" /\ epsilon = Num(F32(0)) /\ pc = "returned") =>
            ~result.ok

\* C6 witness: delta equalled a nonzero epsilon and the update was adopted.
C6_Witness ==
  /\ caller = "run"
  /\ pc = "step_fa"
  /\ t >= 1
  /\ delta = epsilon
  /\ epsilon.val > 0
  /\ state = update
  /\ state # initial_state

\* The formulas of the step written out on components, for non-failing
\* projectors c and d: f_a = c(x)*(1 - 1/beta) + x*(1/beta),
\* f_b = d(x)*(1 + 1/beta) - x*(1/beta), x + (c(f_b) - d(f_a))*beta.
RefFa(x, c, b) ==
  LET inv == FDiv(F32(1), b)
      cx == ProjValue(c, x)
  IN [k \in 1 .. 2 |-> FMul(cx[k], F32(1) - inv) + FMul(x[k], inv)]

RefFb(x, d, b) ==
  LET inv == FDiv(F32(1), b)
      dx == ProjValue(d, x)
  IN [k \in 1 .. 2 |-> FMul(dx[k], F32(1) + inv) - FMul(x[k], inv)]

RefStep(x, d, c, b) ==
  LET p == ProjValue(c, RefFb(x, d, b))
      q == ProjValue(d, RefFa(x, c, b))
  IN [k \in 1 .. 2 |-> x[k] + FMul(p[k] - q[k], b)]

\* C7: the calls of a run come in the fixed order concur, divide, concur,
\* divide, norm; in every completed step the four projector calls succeeded
\* and were concur(x), divide(x), concur(f_b), divide(f_a), and the one
\* distance call came after them, on that step's result and x.
C7_CallOrder ==
  caller = "run" =>
    /\ \A k \in 1 .. Len(calls) :
         calls[k].fn = (CASE k % 5 = 0 -> "norm"
                          [] k % 5 \in {1, 3} -> "concur"
                          [] OTHER -> "divide")
    /\ \A i \in 1 .. Len(NormCalls) :
         LET x == calls[5 * i].ref
         IN /\ \A k \in 5 * i - 4 .. 5 * i - 1 : calls[k].out.ok
            /\ calls[5 * i - 4].arg = x
            /\ calls[5 * i - 3].arg = x
            /\ calls[5 * i - 2].arg = RefFb(x, divide.kind, beta)
            /\ calls[5 * i - 1].arg = RefFa(x, concur.kind, beta)
            /\ calls[5 * i].arg = RefStep(x, divide.kind, concur.kind, beta)

\* C7 witness: a second step completed whose x, f_a and f_b all differ.
C7_Witness ==
  /\ caller = "run"
  /\ Len(NormCalls) >= 2
  /\ calls[8].arg # calls[9].arg
  /\ calls[8].arg # calls[6].arg
  /\ calls[9].arg # calls[6].arg

\* C8: solution is entered only with delta < epsilon just measured; a run
\* that succeeds made, after the converging distance, exactly concur(state)
\* and then divide(f_a), f_a the gamma_a relaxation of state, and returns
\* divide's value as it is; f_b and the step's concur(f_b) are not computed
\* again, and the run's projector calls are four per step plus these two.
C8_SolutionShape ==
  caller = "run" =>
    /\ pc \in {"solution_fa", "solution_divide"} =>
         /\ ~delta.nan /\ ~epsilon.nan /\ delta.val < epsilon.val
         /\ calls[5 * Len(NormCalls)].out.val = delta
         /\ Len(calls) - 5 * Len(NormCalls)
              = (IF pc = "solution_fa" THEN 0 ELSE 1)
    /\ (pc = "returned" /\ result.ok) =>
         LET n == Len(calls)
             x == calls[n - 1].arg
         IN /\ calls[n - 2].fn = "norm"
            /\ x = calls[n - 2].ref
            /\ calls[n - 1].fn = "concur"
            /\ calls[n].fn = "divide"
            /\ calls[n].arg = RefFa(x, concur.kind, beta)
            /\ result.val[1] = calls[n].out.val
            /\ result.val[1] = ProjValue(divide.kind, calls[n].arg)
            /\ fb = calls[n - 4].arg
            /\ pafb = calls[n - 4].out.val
            /\ Len(ProjectorCalls) = 4 * Len(NormCalls) + 2
    /\ ~SomeNormBelow => Len(ProjectorCalls) <= 4 * (Len(NormCalls) + 1)

\* C8 witness: a run succeeded whose state, f_a, f_b and solution all differ.
C8_Witness ==
  /\ RunReturned
  /\ result.ok
  /\ fa # calls[Len(calls) - 1].arg
  /\ fa # fb
  /\ fa # RefFb(calls[Len(calls) - 1].arg, concur.kind, beta)
  /\ result.val[1] # fa

\* C9: a call of step in which no projector fails returns
\* x + (concur(f_b) - divide(f_a))*beta; for beta = 1 that is
\* x + concur(2*divide(x) - x) - divide(x), and for beta = -1 it is
\* x - concur(x) + divide(2*concur(x) - x).
C9_StepFormula ==
  (pc = "returned" /\ caller = "step" /\ AllCallsOk) =>
    LET x == initial_state
        C(y) == ProjValue(concur.kind, y)
        D(y) == ProjValue(divide.kind, y)
        twice(y) == [k \in 1 .. 2 |-> 2 * y[k] - x[k]]
    IN /\ result = Ok(RefStep(x, divide.kind, concur.kind, beta))
       /\ beta = F32(1) =>
            result.val =
              [k \in 1 .. 2 |-> x[k] + C(twice(D(x)))[k] - D(x)[k]]
       /\ beta = F32(-1) =>
            result.val =
              [k \in 1 .. 2 |-> x[k] - C(x)[k] + D(twice(C(x)))[k]]

\* C9 witness: step returned with beta = 2, f_a, f_b and x all different and
\* the result not x.
C9_Witness ==
  /\ pc = "returned"
  /\ caller = "step"
  /\ result.ok
  /\ beta = F32(2)
  /\ fa # fb
  /\ fa # initial_state
  /\ fb # initial_state
  /\ result.val # initial_state

\* C10: with projectors that keep no state, a run from the initial state of
\* the run before it makes the same calls with the same results and returns
\* the same outcome; and two steps of one run from the same state give the
\* same update.
C10_Deterministic ==
  (caller = "run" /\ divide.failAt = 0 /\ concur.failAt = 0) =>
    /\ \A i, j \in 1 .. Len(NormCalls) :
         NormCalls[i].ref = NormCalls[j].ref =>
           NormCalls[i].arg = NormCalls[j].arg
    /\ (pc = "returned" /\ prev.fn = "run" /\ prev.arg = initial_state) =>
         /\ result = prev.result
         /\ calls = prev.calls

\* C10 witness: the second of two runs from one initial state returned a
\* solution after at least one accepted update.
C10_Witness ==
  /\ RunReturned
  /\ prev.fn = "run"
  /\ prev.arg = initial_state
  /\ divide.failAt = 0
  /\ concur.failAt = 0
  /\ result.ok
  /\ result.val[2] >= 1
  /\ result.val[1] # initial_state

\* C11: the solver's configuration (divide, concur, norm, beta, epsilon,
\* n_steps) is what new was given and no step of any run changes it; every
\* invocation of run, whatever the earlier one returned, starts with its own
\* initial state as the current state, step counter 0, delta NaN and an
\* empty call log, and the first call of its first step is made on that
\* initial state.
C11_ConfigImmutable ==
  /\ [][/\ solver' = solver
        /\ (runs' # runs /\ caller' = "run") =>
             /\ state' = initial_state'
             /\ t' = 0
             /\ delta' = NaN
             /\ calls' = <<>>]_vars
  /\ [](caller = "run" =>
          /\ Len(calls) >= 1 => calls[1].arg = initial_state
          /\ Len(NormCalls) >= 1 => NormCalls[1].ref = initial_state)

\* C11 witness: a run that exhausted its budget of at least one step, after
\* an earlier run of the same solver from another initial state converged.
C11_Witness ==
  /\ RunReturned
  /\ prev.fn = "run"
  /\ prev.arg # initial_state
  /\ prev.result.ok
  /\ ~result.ok
  /\ result.err.kind = "Convergence"
  /\ Len(NormCalls) = n_steps
  /\ n_steps >= 1

\* The distances of the log that did not end the run: each one is followed
\* by state = update.
NotBelow(c) == ~Below(c)
AcceptedUpdates == Len(SelectSeq(NormCalls, NotBelow))
InStep == pc \in {"step_fa", "step_fb", "step_pafb", "step_pbfa", "norm"}
IsExhausted == ~result.ok /\ result.err.kind = "Convergence"

\* C16: in every state of a run the step counter is the number of accepted
\* updates and lies in 0 .. n_steps; a step is being evaluated only while it
\* is below n_steps; a success carries that number, which is below n_steps;
\* the Convergence error is returned only with n_steps accepted updates and
\* no distance below epsilon; a distance below epsilon is the last one
\* measured and never leads to the Convergence error; and either outcome ends
\* the run.
C16_StepCounter ==
  caller = "run" =>
    /\ t = AcceptedUpdates
    /\ 0 <= AcceptedUpdates /\ AcceptedUpdates <= n_steps
    /\ InStep => AcceptedUpdates < n_steps
    /\ result.ok =>
         /\ result.val[2] = AcceptedUpdates
         /\ AcceptedUpdates < n_steps
         /\ SomeNormBelow
         /\ pc = "returned"
    /\ IsExhausted =>
         /\ AcceptedUpdates = n_steps
         /\ result.err.steps = n_steps
         /\ ~SomeNormBelow
         /\ pc = "returned"
    /\ SomeNormBelow =>
         /\ Below(NormCalls[Len(NormCalls)])
         /\ AcceptedUpdates = Len(NormCalls) - 1
         /\ ~InStep
         /\ ~IsExhausted

\* C16 witness: a run converged in the last step its budget allows, after an
\* accepted update.
C16_Witness ==
  /\ RunReturned
  /\ result.ok
  /\ result.val[2] >= 1
  /\ result.val[2] = n_steps - 1

\* C19: with n_steps = 0 a run is over as soon as it is entered: it calls no
\* projector and no distance, the closures' call counts are what they were,
\* and it returns Err(Convergence(0, NaN)), whatever the initial state, the
\* projectors, the distance and epsilon are.
C19_ZeroBudget ==
  (caller = "run" /\ n_steps = 0) =>
    /\ pc = "returned"
    /\ result = Err(Convergence(0, NaN))
    /\ result.err.delta.nan
    /\ calls = <<>>
    /\ used = [divide |-> 0, concur |-> 0]
    /\ state = initial_state
    /\ t = 0
    /\ delta = NaN

\* C19 witness: a run with no budget returned, on a solver whose distance is
\* always 0 and whose epsilon is positive, so that a first step would have
\* converged; it is the second such run and starts from another state.
C19_Witness ==
  /\ RunReturned
  /\ n_steps = 0
  /\ norm = "zero"
  /\ Lt(Num(F32(0)), epsilon)
  /\ divide.failAt = 1
  /\ prev.fn = "run"
  /\ prev.arg # initial_state

\* One step of an invocation in progress: a call of a projector or of the
\* distance that returns, and the code up to the next call.
RunStep ==
  \/ StepFa
  \/ StepFb
  \/ StepPafb
  \/ StepPbfa
  \/ Norm
  \/ SolutionFa
  \/ SolutionDivide

\* One invocation of run on a newly built solver.
FirstRun(x) ==
  /\ pc = "idle"
  /\ Run(x)

NextLive ==
  \/ \E x \in InitialStates : FirstRun(x)
  \/ RunStep

\* run is sequential code: once entered it goes on as long as each call it
\* makes returns.  Nothing obliges the caller to call run at all.
SpecLive == Init /\ [][NextLive]_vars /\ WF_vars(RunStep)

Running == caller = "run" /\ pc \notin {"idle", "returned"}

\* C17: when every projector and distance call returns, every invocation of
\* run returns; it measures at most n_steps distances and makes at most
\* 4 * n_steps + 2 projector calls; a run that converged in iteration t with
\* no failed call made exactly 4 * (t + 1) + 2 projector calls and t + 1
\* distance calls, an exhausted run exactly 4 * n_steps and n_steps; and a
\* returned run has exactly one outcome.
C17_Terminates ==
  /\ Running ~> (pc = "returned")
  /\ [](caller = "run" =>
          /\ Len(NormCalls) <= n_steps
          /\ Len(ProjectorCalls) <= 4 * n_steps + 2
          /\ Len(ProjectorCalls) <= 4 * (t + 1) + 2
          /\ Running <=> result = NoResult
          /\ result.ok =>
               /\ Len(ProjectorCalls) = 4 * (result.val[2] + 1) + 2
               /\ Len(NormCalls) = result.val[2] + 1
          /\ IsExhausted =>
               /\ Len(ProjectorCalls) = 4 * n_steps
               /\ Len(NormCalls) = n_steps)

\* C17 witness: a run returned a solution after as many projector calls as
\* the largest budget allows.
C17_Witness ==
  /\ RunReturned
  /\ result.ok
  /\ n_steps = MaxSteps
  /\ Len(ProjectorCalls) = 4 * n_steps + 2
  /\ Len(NormCalls) = n_steps

\* run, step and solution called once each on a newly built solver whose
\* projectors never fail, whose budget is at least one step and whose epsilon
\* is positive, from every state of the grid.
InitFix ==
  /\ Init
  /\ divide.failAt = 0
  /\ concur.failAt = 0
  /\ n_steps >= 1
  /\ Lt(Num(F32(0)), epsilon)

NextFix ==
  \/ \E x \in FnStates : FirstRun(x)
  \/ \E x \in FnStates : CallStep(x)
  \/ \E x \in FnStates : CallSolution(x)
  \/ RunStep

SpecFix == InitFix /\ [][NextFix]_vars

\* x is left alone by both projectors.
CommonFixedPoint(x) ==
  /\ ~ProjRefuses(divide.kind, x)
  /\ ~ProjRefuses(concur.kind, x)
  /\ ProjValue(divide.kind, x) = x
  /\ ProjValue(concur.kind, x) = x

\* C20: from a state x with divide(x) = x and concur(x) = x, for beta in
\* {1, -1, 2}: step returns Ok(x), solution returns Ok(x), and run, with a
\* distance that is 0 for equal states, epsilon > 0 and n_steps >= 1, returns
\* Ok((x, 0, 0)) after one step and one solution, every projector call being
\* made on x and returning x.
C20_FixedPoint ==
  (pc = "returned" /\ CommonFixedPoint(initial_state)) =>
    /\ \A i \in 1 .. Len(calls) :
         IsProjector(calls[i]) =>
           calls[i].arg = initial_state /\ calls[i].out = Ok(initial_state)
    /\ caller \in {"step", "solution"} => result = Ok(initial_state)
    /\ (caller = "run" /\ norm # "nan") =>
         /\ result = Ok(<<initial_state, 0, Num(F32(0))>>)
         /\ Len(NormCalls) = 1
         /\ NormCalls[1].arg = initial_state
         /\ NormCalls[1].ref = initial_state

\* C20 witness: a run returned from a common fixed point of two projectors
\* that are not the identity, with beta = -1 and a distance that is not
\* constant.
C20_Witness ==
  /\ RunReturned
  /\ CommonFixedPoint(initial_state)
  /\ divide.kind = "diagonal"
  /\ concur.kind = "clamp"
  /\ initial_state = <<F32(-1), F32(-1)>>
  /\ beta = F32(-1)
  /\ norm = "l1"
  /\ result.ok

\* ------------------------------------------- example: boolean satisfiability
\* Values of this example are f32 in units of 1/64: SatOne stands for 1.0.
\* Every value the model computes is a multiple of 1/64 of small magnitude,
\* which f32 holds exactly; SatDiv has no value when a quotient is not.
SatOne == 64
SatDiv(a, k) == CHOOSE q \in {a \div k} : q * k = a

NVARS == 2
INDICES == <<<<0, 0, 1>>, <<0, 1, 1>>, <<0, 1, 1>>>>
NEGATINGS ==
  <<<<FALSE, FALSE, FALSE>>, <<TRUE, TRUE, TRUE>>, <<TRUE, FALSE, FALSE>>>>

\* The vector with the n elements f[1] .. f[n].
RECURSIVE Vec(_, _)
Vec(f, n) == IF n = 0 THEN <<>> ELSE Append(Vec(f, n - 1), f[n])

\* Clause::new: the clause's values are the variables its indices name.
ClauseNew(variables, indices, negating) ==
  [values |-> Vec([i \in 1 .. Len(indices) |-> variables[indices[i] + 1]],
                   Len(indices)),
   indices |-> indices,
   negating |-> negating,
   n |-> Len(variables)]

\* SatState::new
SatStateNew(variables, indices, negating) ==
  [clauses |-> Vec([i \in 1 .. Len(indices) |->
                      ClauseNew(variables, indices[i], negating[i])],
                   Len(indices)),
   nvars |-> Len(variables)]

\* solve, lines 26-31: if neg { -1.0 * val } else { val }
Negate(val, neg) == IF neg THEN -val ELSE val

\* solve, lines 33-36: if val < 0.0 { -1.0 } else { 1.0 }
Putative(val) == IF val < 0 THEN -SatOne ELSE SatOne

\* solve, line 38: putative.iter().all(|&v| v < 0.0)
AllFalse(putative) == \A i \in 1 .. Len(putative) : putative[i] < 0

\* solve, lines 40-42: costs[i] += v, over the positions up to k that name
\* variable j.
RECURSIVE CostOf(_, _, _, _)
CostOf(indices, values, j, k) ==
  IF k = 0 THEN 0
  ELSE CostOf(indices, values, j, k - 1)
         + (IF indices[k] = j THEN values[k] ELSE 0)

\* argmax: the fold from (0, vars[0]); an equal value moves to the later
\* index.  costs[i + 1] is the code's costs[i].
RECURSIVE ArgmaxFold(_, _, _, _)
ArgmaxFold(costs, n, i, acc) ==
  IF i = n THEN acc
  ELSE ArgmaxFold(costs, n, i + 1,
                  IF acc[2] > costs[i + 1] THEN acc ELSE <<i, costs[i + 1]>>)

argmax(costs, n) == ArgmaxFold(costs, n, 0, <<0, costs[1]>>)[1]

\* Mutant: the negation is not undone in the solution.
Unnegate_Skip(val, neg) == val

\* solve, lines 52-56: if neg { -1.0 * val } else { val }
Unnegate(val, neg) == IF neg THEN -val ELSE val

\* Clause::solve
solve(c) ==
  LET len == Len(c.values)
      values ==
        Vec([i \in 1 .. len |-> Negate(c.values[i], c.negating[i])], len)
      putative == Vec([i \in 1 .. len |-> Putative(values[i])], len)
      costs ==
        Vec([j \in 1 .. c.n |-> CostOf(c.indices, values, j - 1, len)], c.n)
      idx == argmax(costs, c.n)
      chosen ==
        IF AllFalse(putative)
          THEN Vec([i \in 1 .. len |->
                      IF c.indices[i] = idx THEN SatOne ELSE putative[i]],
                   len)
          ELSE putative
  IN [values |->
        Vec([i \in 1 .. len |-> Unnegate(chosen[i], c.negating[i])], len),
      indices |-> c.indices,
      negating |-> c.negating,
      n |-> c.n]

divide_projector(s) ==
  Ok([clauses |-> Vec([i \in 1 .. Len(s.clauses) |-> solve(s.clauses[i])],
                      Len(s.clauses)),
      nvars |-> s.nvars])

\* concur_projector, lines 17-24: values[i][j] is the value at the first
\* position of clause i that names variable j.  Every clause of the instances
\* modelled names every variable, so no entry stays NaN.
FirstValue(clause, j) ==
  LET k == CHOOSE k \in 1 .. Len(clause.indices) :
             /\ clause.indices[k] = j
             /\ \A m \in 1 .. k - 1 : clause.indices[m] # j
  IN clause.values[k]

\* concur_projector, lines 26-31: mean[j] += x / state.nvars as f32, over the
\* first k clauses.
RECURSIVE MeanOf(_, _, _)
MeanOf(s, j, k) ==
  IF k = 0 THEN 0
  ELSE MeanOf(s, j, k - 1) + SatDiv(FirstValue(s.clauses[k], j), s.nvars)

concur_projector(s) ==
  LET mean == Vec([j \in 1 .. s.nvars |->
                     MeanOf(s, j - 1, Len(s.clauses))], s.nvars)
  IN Ok([clauses |-> Vec([i \in 1 .. Len(s.clauses) |->
                            ClauseNew(mean, s.clauses[i].indices,
                                      s.clauses[i].negating)],
                         Len(s.clauses)),
         nvars |-> s.nvars])

\* f32::signum: 1.0 for +0.0 and above, -1.0 below.  No -0.0 arises: a zero
\* of a state comes from an input or from a sum of opposite values.
Signum(v) == IF v >= 0 THEN SatOne ELSE -SatOne

\* norm, lines 43-50: the number of positions whose signs differ, over the
\* first k clauses.
RECURSIVE Disagreements(_, _, _)
Disagreements(current, previous, k) ==
  IF k = 0 THEN 0
  ELSE Disagreements(current, previous, k - 1)
         + Cardinality({i \in 1 .. Len(current.clauses[k].values) :
               Signum(current.clauses[k].values[i])
                 # Signum(previous.clauses[k].values[i])})

\* norm, line 51: delta / current.clauses.len() as f32, kept as a fraction.
SatNorm(current, previous) ==
  [nan |-> FALSE,
   num |-> Disagreements(current, previous, Len(current.clauses)),
   den |-> Len(current.clauses)]

\* impl Add for SatState, impl Add for Clause: the left operand's indices,
\* negating, n and nvars are kept.
SatAdd(l, r) ==
  [clauses |-> Vec([i \in 1 .. Len(l.clauses) |->
      [l.clauses[i] EXCEPT !.values =
         Vec([k \in 1 .. Len(l.clauses[i].values) |->
                l.clauses[i].values[k] + r.clauses[i].values[k]],
             Len(l.clauses[i].values))]], Len(l.clauses)),
   nvars |-> l.nvars]

\* impl Mul<f32> for SatState, impl Mul<f32> for Clause; rhs in units of 1/64.
SatMul(l, rhs) ==
  [clauses |-> Vec([i \in 1 .. Len(l.clauses) |->
      [l.clauses[i] EXCEPT !.values =
         Vec([k \in 1 .. Len(l.clauses[i].values) |->
                SatDiv(l.clauses[i].values[k] * rhs, SatOne)],
             Len(l.clauses[i].values))]], Len(l.clauses)),
   nvars |-> l.nvars]

ClauseLen == 3
SatMaxVars == 2
SatMaxSteps == 3

\* step on a SatState: the same code as Relax and Combine, with the
\* example's Add and Mul.  gamma and b are in units of 1/64.
SatRelax(projected, x, gamma) ==
  SatAdd(SatMul(projected, SatOne + gamma), SatMul(x, -gamma))

SatStep(x, b) ==
  LET gamma_a == SatDiv(-SatOne * SatOne, b)
      gamma_b == SatDiv(SatOne * SatOne, b)
      f_a == SatRelax(concur_projector(x).val, x, gamma_a)
      f_b == SatRelax(divide_projector(x).val, x, gamma_b)
      p_afb == concur_projector(f_b).val
      p_bfa == divide_projector(f_a).val
  IN Ok(SatAdd(x, SatMul(SatAdd(p_afb, SatMul(p_bfa, -SatOne)), b)))

SatSolution(x, b) ==
  LET gamma_a == SatDiv(-SatOne * SatOne, b)
      f_a == SatRelax(concur_projector(x).val, x, gamma_a)
  IN divide_projector(f_a)

\* delta < self.epsilon on fractions
SatLt(d, eps) == ~d.nan /\ ~eps.nan /\ d.num * eps.den < eps.num * d.den

\* main, line 26: beta 1.0, epsilon 0.4
SatBeta == SatOne
SatEpsilon == [nan |-> FALSE, num |-> 2, den |-> 5]

\* The values each variable takes in all the clauses of s.
Occurrences(s, j) ==
  UNION {{s.clauses[i].values[k] :
            k \in {m \in 1 .. Len(s.clauses[i].values) :
                     s.clauses[i].indices[m] = j}} :
         i \in 1 .. Len(s.clauses)}

Consistent(s) ==
  \A j \in 0 .. s.nvars - 1 : Cardinality(Occurrences(s, j)) = 1

\* SatState::solution: panics when a variable has two values or none, and
\* otherwise reads each variable as v == 1.0.
SatStateSolution(s) ==
  IF \E j \in 0 .. s.nvars - 1 : Cardinality(Occurrences(s, j)) > 1
    THEN Err([kind |-> "panic", cause |-> "inconsistent results"])
  ELSE IF \E j \in 0 .. s.nvars - 1 : Occurrences(s, j) = {}
    THEN Err([kind |-> "panic", cause |-> "failed to set all variables"])
  ELSE Ok(Vec([j \in 1 .. s.nvars |->
                 (CHOOSE v \in Occurrences(s, j - 1) : TRUE) = SatOne],
              s.nvars))

\* Inputs.  Variables as SatState::new takes them; states of the example
\* instance whose every value is +1 or -1; clauses of ClauseLen literals over
\* 1 .. SatMaxVars variables.
SatValues == {-6 * SatOne, -2 * SatOne, -SatOne, 0, SatOne, 4 * SatOne}
SignValues == {-SatOne, SatOne}
SignTriples == [1 .. ClauseLen -> SignValues]

SatInputs ==
  {SatStateNew(v, INDICES, NEGATINGS) : v \in [1 .. NVARS -> SatValues]}
    \cup
  {[clauses |-> Vec([i \in 1 .. Len(INDICES) |->
                       [values |-> w[i], indices |-> INDICES[i],
                        negating |-> NEGATINGS[i], n |-> NVARS]],
                    Len(INDICES)),
    nvars |-> NVARS] : w \in [1 .. Len(INDICES) -> SignTriples]}

SolveValues == {-2 * SatOne, -SatOne, 0, SatOne}

ClauseInputs ==
  UNION {[values : [1 .. ClauseLen -> SolveValues],
          indices : [1 .. ClauseLen -> 0 .. n - 1],
          negating : [1 .. ClauseLen -> BOOLEAN],
          n : {n}] : n \in 1 .. SatMaxVars}

InitSat ==
  /\ divide = [kind |-> "divide_projector", failAt |-> 0]
  /\ concur = [kind |-> "concur_projector", failAt |-> 0]
  /\ norm = "norm"
  /\ beta = SatBeta
  /\ epsilon = SatEpsilon
  /\ n_steps \in 1 .. SatMaxSteps
  /\ used = [divide |-> 0, concur |-> 0]
  /\ pc = "idle"
  /\ caller = "none"
  /\ initial_state = None
  /\ state = None
  /\ delta = NaN
  /\ t = 0
  /\ update = None
  /\ fa = None
  /\ fb = None
  /\ pafb = None
  /\ result = NoResult
  /\ calls = <<>>
  /\ prev = NoPrev
  /\ runs = 0

SatFrame ==
  UNCHANGED <<solver, used, fa, fb, pafb, calls, prev>>

\* Clause::solve called on a clause.
CallSolve(c) ==
  /\ pc = "idle"
  /\ caller' = "solve"
  /\ initial_state' = c
  /\ result' = Ok(solve(c))
  /\ pc' = "returned"
  /\ runs' = runs + 1
  /\ UNCHANGED <<state, delta, t, update>>
  /\ SatFrame

\* ------------------------------------------------------- example: sudoku
\* Values of this example are f32 in units of 2^-29, so that 0.1f32, whose
\* significand is 13421773, and its third are integers here.  A positive
\* value q has 24 significant bits: its unit in the last place is the power
\* of two u with 2^23 * u <= q < 2^24 * u.  Values below 2^23 are not used.
SudokuOne == 536870912
SudokuTenth == 53687092

RECURSIVE UlpFrom(_, _)
UlpFrom(q, u) == IF q < 16777216 * u THEN u ELSE UlpFrom(q, 2 * u)

F32Ulp(q) == UlpFrom(q, 1)

\* The f32 nearest to num / den, ties to the even significand.
F32Round(num, den) ==
  LET u == F32Ulp(num \div den)
      k == num \div (den * u)
      r == num - k * den * u
  IN IF 2 * r > den * u \/ (2 * r = den * u /\ k % 2 = 1)
       THEN u * (k + 1)
       ELSE u * k

SudokuCells == 2
SudokuCopies == 3

\* Mutant: the values are summed, not averaged.
MeanStep_NoDiv(acc, val, d) == F32Round(acc + val, 1)

\* concur_projector, line 48: mean.0[i] += val / d
MeanStep(acc, val, d) == F32Round(acc + F32Round(val, d), 1)

\* concur_projector, lines 45-50: element i of mean after the first k
\* constraint copies.
RECURSIVE MeanAt(_, _, _)
MeanAt(states, i, k) ==
  IF k = 0 THEN 0
  ELSE MeanStep(MeanAt(states, i, k - 1), states[k][i], Len(states))

\* sudoku concur_projector: mean has the length of given, and the value has
\* three copies of it whatever the number of copies of the input.
sudoku_concur_projector(s) ==
  LET n == Len(s.given)
      mean == Vec([i \in 1 .. n |-> MeanAt(s.states, i, Len(s.states))], n)
  IN Ok([given |-> s.given,
         states |-> Vec([k \in 1 .. SudokuCopies |-> mean], SudokuCopies)])

SudokuValues == {0, SudokuTenth, SudokuOne}
SudokuVectors == [1 .. SudokuCells -> SudokuValues]

\* SudokuState: three constraint copies, and clues that are all unset or
\* all set as in the test.
SudokuInputs ==
  [given : {[i \in 1 .. SudokuCells |-> g] : g \in {0, SudokuOne}},
   states : [1 .. SudokuCopies -> SudokuVectors]]

\* The projector of the given name.
ApplyProjector(f, x) ==
  IF f = "divide_projector" THEN divide_projector(x)
  ELSE IF f = "concur_projector" THEN concur_projector(x)
  ELSE sudoku_concur_projector(x)

\* A projector of the example called on a state; state holds its value.
CallProjector(f, x) ==
  /\ pc = "idle"
  /\ caller' = f
  /\ initial_state' = x
  /\ state' = ApplyProjector(f, x).val
  /\ pc' = "projected"
  /\ runs' = runs + 1
  /\ UNCHANGED <<delta, t, update, result>>
  /\ SatFrame

\* The same projector called on the value it returned; update holds the
\* second value.
ProjectAgain ==
  /\ pc = "projected"
  /\ update' = ApplyProjector(caller, state).val
  /\ result' = Ok(update')
  /\ pc' = "returned"
  /\ UNCHANGED <<caller, initial_state, state, delta, t, runs>>
  /\ SatFrame

\* run on the example's solver, up to the loop head for t = 0.
SatRun(x) ==
  /\ pc = "idle"
  /\ caller' = "run"
  /\ initial_state' = x
  /\ state' = x
  /\ delta' = NaN
  /\ t' = 0
  /\ runs' = runs + 1
  /\ IF InRange(0, n_steps)
       THEN pc' = "loop" /\ result' = NoResult
       ELSE pc' = "returned" /\ result' = Exhausted(n_steps, NaN)
  /\ UNCHANGED update
  /\ SatFrame

\* One iteration of run's loop, lines 51-62: step, norm, and either solution
\* and return or state = update and the loop head.
SatIterate ==
  /\ pc = "loop"
  /\ LET u == SatStep(state, beta).val
         d == SatNorm(u, state)
     IN /\ update' = u
        /\ delta' = d
        /\ IF SatLt(d, epsilon)
             THEN /\ state' = SatSolution(Extracted(state, u), beta).val
                  /\ result' = Success(state', t, d)
                  /\ pc' = "returned"
                  /\ UNCHANGED t
             ELSE /\ state' = Accepted(state, u)
                  /\ t' = t + 1
                  /\ IF InRange(t + 1, n_steps)
                       THEN pc' = "loop" /\ UNCHANGED result
                       ELSE /\ pc' = "returned"
                            /\ result' = Exhausted(n_steps, d)
  /\ UNCHANGED <<caller, initial_state, runs>>
  /\ SatFrame

NextSat ==
  \/ pc = "idle" /\ \E c \in ClauseInputs : CallSolve(c)
  \/ pc = "idle" /\ \E x \in SatInputs : CallProjector("divide_projector", x)
  \/ pc = "idle" /\ \E x \in SatInputs : CallProjector("concur_projector", x)
  \/ pc = "idle" /\ \E x \in SatInputs : SatRun(x)
  \/ ProjectAgain
  \/ SatIterate

SpecSat == InitSat /\ [][NextSat]_vars

\* C12: the example's concur_projector is idempotent: applied to the value
\* it returned, it returns a state with the same clause values.
C12_ConcurIdempotent ==
  (pc = "returned" /\ caller = "concur_projector") =>
    \A i \in 1 .. Len(state.clauses) :
      update.clauses[i].values = state.clauses[i].values

\* C13: the example's divide_projector is idempotent and keeps the frame:
\* applied to the value it returned it returns exactly that value, and the
\* clauses' indices and negation flags, their number and nvars are those of
\* the input; Clause::solve, which it maps over the clauses, returns a clause
\* that solve leaves as it is, with the indices, flags and n of its input.
C13_DivideIdempotent ==
  /\ (pc = "returned" /\ caller = "divide_projector") =>
       /\ update = state
       /\ state.nvars = initial_state.nvars
       /\ Len(state.clauses) = Len(initial_state.clauses)
       /\ \A i \in 1 .. Len(state.clauses) :
            /\ state.clauses[i].indices = initial_state.clauses[i].indices
            /\ state.clauses[i].negating = initial_state.clauses[i].negating
            /\ state.clauses[i].n = initial_state.clauses[i].n
            /\ Len(state.clauses[i].values)
                 = Len(initial_state.clauses[i].values)
  /\ (pc = "returned" /\ caller = "solve") =>
       /\ solve(result.val) = result.val
       /\ result.val.indices = initial_state.indices
       /\ result.val.negating = initial_state.negating
       /\ result.val.n = initial_state.n

\* C13 witness: divide_projector was applied twice from the variables
\* (0.0, 1.0) of the example instance, changed the values, and had to make a
\* false literal of the all-negated clause true.
C13_Witness ==
  /\ pc = "returned"
  /\ caller = "divide_projector"
  /\ initial_state = SatStateNew(<<0, SatOne>>, INDICES, NEGATINGS)
  /\ state # initial_state
  /\ state.clauses[1].values = <<SatOne, SatOne, SatOne>>
  /\ state.clauses[2].values = <<-SatOne, SatOne, SatOne>>

\* Literal i of clause c holds.
LiteralTrue(c, i) ==
  \/ c.values[i] = SatOne /\ ~c.negating[i]
  \/ c.values[i] = -SatOne /\ c.negating[i]

\* C14: Clause::solve returns values that are all +1 or -1 with at least one
\* literal true, for every clause, also one that names only some of its n
\* variables.
C14_SolveSatisfies ==
  (pc = "returned" /\ caller = "solve") =>
    /\ \A i \in 1 .. Len(result.val.values) :
         result.val.values[i] \in {SatOne, -SatOne}
    /\ \E i \in 1 .. Len(result.val.values) : LiteralTrue(result.val, i)

\* C15: in the example instance with beta = 1 and epsilon = 0.4, a run with a
\* budget of at least two steps, from an initial state that divide_projector
\* maps to a consistent assignment, returns Ok at step 0 or 1 with delta = 0,
\* and SatState::solution reads (false, true) from the returned state.
C15_Scenario ==
  (pc = "returned" /\ caller = "run" /\ n_steps >= 2
     /\ Consistent(divide_projector(initial_state).val)) =>
    /\ result.ok
    /\ result.val[2] \in {0, 1}
    /\ result.val[3].num = 0
    /\ SatStateSolution(result.val[1]) = Ok(<<FALSE, TRUE>>)

\* sudoku example, main: DivideAndConcurSolver::new(divide_projector,
\* concur_projector, norm, 0.9, 1.0, 100000); only concur_projector is called
\* here.
InitSudoku ==
  /\ divide = [kind |-> "sudoku_divide_projector", failAt |-> 0]
  /\ concur = [kind |-> "sudoku_concur_projector", failAt |-> 0]
  /\ norm = "sudoku_norm"
  /\ beta = 483183808
  /\ epsilon = Num(SudokuOne)
  /\ n_steps = 100000
  /\ used = [divide |-> 0, concur |-> 0]
  /\ pc = "idle"
  /\ caller = "none"
  /\ initial_state = None
  /\ state = None
  /\ delta = NaN
  /\ t = 0
  /\ update = None
  /\ fa = None
  /\ fb = None
  /\ pafb = None
  /\ result = NoResult
  /\ calls = <<>>
  /\ prev = NoPrev
  /\ runs = 0

NextSudoku ==
  \/ /\ pc = "idle"
     /\ \E x \in SudokuInputs : CallProjector("sudoku_concur_projector", x)
  \/ ProjectAgain

SpecSudoku == InitSudoku /\ [][NextSudoku]_vars

\* The sum of element i over the copies, exact.
RECURSIVE ExactSum(_, _, _)
ExactSum(states, i, k) ==
  IF k = 0 THEN 0 ELSE ExactSum(states, i, k - 1) + states[k][i]

AllCopiesEqual(s) == \A k \in 1 .. Len(s.states) : s.states[k] = s.states[1]

Twice == pc = "returned" /\ caller = "sudoku_concur_projector"

====
